---- MODULE Spec2Model ----
(***************************************************************************)
(* The reward-pool program (programs/reward-pool/src/lib.rs) as a state    *)
(* machine over the account data its five instruction processors read and  *)
(* write.  Every processor is one action; an action models the whole       *)
(* handler, including the writes it has already made to account data when  *)
(* it returns an error or panics.                                          *)
(*                                                                         *)
(* External collaborators are modelled at their interface: the system      *)
(* program's create_account allocates a zero-filled account and fails when *)
(* the address is already in use; the token program's transfer either      *)
(* moves the amount or returns an error; Clock::get() returns the current  *)
(* slot, which only grows.                                                 *)
(***************************************************************************)
EXTENDS Integers, Sequences, FiniteSets, TLC

(***************************************************************************)
(* Bounds of the model.                                                    *)
(***************************************************************************)
\* u64 values are modelled with WordBits bits: sums and products wrap modulo
\* 2^WordBits exactly as the u64 ones wrap modulo 2^64.
WordBits == 20
\* longest task_ids vector of a WithdrawRewards instruction
MaxBatch == 2
\* expected_nonce values range over 0..MaxNonce
MaxNonce == 2
\* the clock's slot ranges over 0..MaxSlot
MaxSlot == 1

U64_MOD == 2 ^ WordBits
U64_MAX == U64_MOD - 1

(***************************************************************************)
(* Input universes.                                                        *)
(***************************************************************************)
\* keys of the farmer wallets
Farmers == {"f1", "f2"}
\* task ids; "tL" stands for an id of 33 bytes, the others are 2 bytes long
TaskIds == {"t1", "t2", "tL"}
\* half of the u64 range: two of them overflow a sum, one overflows total * fee
BigReward == 2 ^ (WordBits - 1)

\* The inputs of one run are drawn from one universe: the reward amounts, the
\* token mints and the byte lengths of the pool_id string that
\* RecordTaskCompletion is called with, the fee percentages (a u8) that
\* InitializeRewardPool and UpdatePlatformFee are called with, the last slot
\* the clock reaches, and the builds (with and without overflow checks) whose
\* outcome is taken when a u64 operation overflows.
\*   assets:   zero and ordinary rewards in two mints
\*   overflow: ordinary and huge rewards, in both builds
\*   layout:   pool ids of 2, 118 and 119 bytes (a record fills the account
\*             data exactly with 118)
\*   clock:    a clock that advances
\*   fees:     fees of 0, 10 and 100 percent
Universe(rewards, mints, pool_id_lens, fees, last_slot, builds) ==
    [rewards |-> rewards, mints |-> mints, pool_id_lens |-> pool_id_lens,
     fees |-> fees, last_slot |-> last_slot, builds |-> builds]
AssetsUniverse == Universe({0, 1000}, {"m1", "m2"}, {118}, {10, 101}, 0, {TRUE})
OverflowUniverse == Universe({1000, BigReward}, {"m1"}, {118}, {10, 101}, 0, BOOLEAN)
LayoutUniverse == Universe({1000}, {"m1"}, {2, 118, 119}, {10, 101}, 0, {TRUE})
ClockUniverse == Universe({1000}, {"m1"}, {118}, {10, 101}, MaxSlot, {TRUE})
FeesUniverse == Universe({1000}, {"m1"}, {118}, {0, 10, 100, 101}, 0, {TRUE})
Universes == {AssetsUniverse, OverflowUniverse, LayoutUniverse, ClockUniverse,
              FeesUniverse}

TaskIdLen(task_id) ==
    IF task_id = "tL" THEN 33 ELSE IF task_id = "" THEN 0 ELSE 2

\* Pubkey::find_program_address accepts seeds of at most 32 bytes
MAX_SEED_LEN == 32

(***************************************************************************)
(* Account layouts.                                                        *)
(***************************************************************************)
RewardPool_LEN == 1 + 32 + 1 + 8 + 8 + 1
FarmerAccount_LEN == 1 + 32 + 8 + 8 + 8 + 8
TaskCompletionRecord_LEN == 1 + 64 + 32 + 64 + 8 + 32 + 1 + 8

\* An account that create_account has not allocated has no data; a freshly
\* allocated one is zero-filled (is_initialized = FALSE, every field zero).
RewardPool(alloc, init, authority, fee, distributed, fees, paused) ==
    [allocated |-> alloc, is_initialized |-> init,
     platform_authority |-> authority,
     platform_fee_percentage |-> fee,
     total_rewards_distributed |-> distributed,
     total_platform_fees_collected |-> fees,
     is_paused |-> paused]

NoRewardPool == RewardPool(FALSE, FALSE, "", 0, 0, 0, FALSE)

FarmerAccount(alloc, init, farmer, nonce, earned, withdrawn, slt) ==
    [allocated |-> alloc, is_initialized |-> init,
     farmer_address |-> farmer,
     withdrawal_nonce |-> nonce,
     total_rewards_earned |-> earned,
     total_rewards_withdrawn |-> withdrawn,
     last_withdrawal_slot |-> slt]

NoFarmerAccount == FarmerAccount(FALSE, FALSE, "", 0, 0, 0, 0)
ZeroedFarmerAccount == FarmerAccount(TRUE, FALSE, "", 0, 0, 0, 0)

TaskCompletionRecord(alloc, init, task_id, farmer, pool_len, reward, mint, claimed, slt) ==
    [allocated |-> alloc, is_initialized |-> init,
     task_id |-> task_id,
     farmer_address |-> farmer,
     pool_id_len |-> pool_len,
     reward_amount |-> reward,
     token_mint |-> mint,
     is_claimed |-> claimed,
     completion_slot |-> slt]

NoTaskRecord == TaskCompletionRecord(FALSE, FALSE, "", "", 0, 0, "", FALSE, 0)
ZeroedTaskRecord == TaskCompletionRecord(TRUE, FALSE, "", "", 0, 0, "", FALSE, 0)

(***************************************************************************)
(* Address derivation.  find_program_address is a hash of the seeds; the   *)
(* model keeps the seeds themselves, which makes it injective.             *)
(***************************************************************************)
get_reward_pool_seeds == <<"reward_pool">>
get_farmer_account_seeds(farmer_address) == <<"farmer", farmer_address>>
get_task_record_seeds(task_id) == <<"task", task_id>>
get_reward_vault_seeds(token_mint) == <<"reward_vault", token_mint>>
find_program_address(seeds) == seeds

\* an account at another address, whose data its creator chose
FakePoolKey == <<"fake_pool">>
PoolKeys == {find_program_address(get_reward_pool_seeds), FakePoolKey}
FarmerKeys == {find_program_address(get_farmer_account_seeds(f)) : f \in Farmers}
TaskKeys == {find_program_address(get_task_record_seeds(t)) : t \in TaskIds}

\* token accounts: the two reward vaults, a farmer's account and two others
TokenKeys == {find_program_address(get_reward_vault_seeds("m1")),
              find_program_address(get_reward_vault_seeds("m2")),
              <<"token", "f1_m1">>, <<"token", "tr_m1">>, <<"token", "tr_m2">>}
TokenMintOf(key) == IF key[2] \in {"m1", "f1_m1", "tr_m1"} THEN "m1" ELSE "m2"
InitialAmount(key) ==
    IF key = find_program_address(get_reward_vault_seeds("m1")) THEN U64_MAX
    ELSE IF key = find_program_address(get_reward_vault_seeds("m2")) THEN 500
    ELSE 0

(***************************************************************************)
(* State.                                                                  *)
(***************************************************************************)
VARIABLES
    universe,          \* the universe this run draws its inputs from
    reward_pool,       \* data of the account at the reward-pool address
    farmer_accounts,   \* farmer key -> data of the farmer account
    task_records,      \* task id -> data of the task record account
    token_amounts,     \* token account key -> amount
    slot,              \* Clock::get()?.slot
    last,              \* the last instruction processed and its result
    paid,              \* task id -> number of successful withdrawals of it
    wd_nonces          \* farmer -> expected_nonce of each successful withdrawal

vars == <<universe, reward_pool, farmer_accounts, task_records,
          token_amounts, slot, last, paid, wd_nonces>>

\* caller: the key of the account that signed the instruction ("" when the
\* account in the signer's place did not sign)
\* nonce_differs: the instruction was a WithdrawRewards whose expected_nonce
\* is not the withdrawal_nonce stored for its farmer
\* empty: the instruction was a WithdrawRewards with no task id
\* repeats: the instruction was a WithdrawRewards whose task_ids list some
\* task id more than once
Last(op, code, at, caller, nonce_differs, empty, repeats, total, fee, pct) ==
    [op |-> op, code |-> code, at |-> at, caller |-> caller,
     nonce_differs |-> nonce_differs, empty |-> empty, repeats |-> repeats,
     total |-> total, fee |-> fee, pct |-> pct]

Init ==
    /\ universe \in Universes
    /\ reward_pool = NoRewardPool
    /\ farmer_accounts = [f \in Farmers |-> NoFarmerAccount]
    /\ task_records = [t \in TaskIds |-> NoTaskRecord]
    /\ token_amounts = [k \in TokenKeys |-> InitialAmount(k)]
    /\ slot = 0
    /\ last = Last("none", "Ok", "none", "", FALSE, FALSE, FALSE, 0, 0, 0)
    /\ paid = [t \in TaskIds |-> 0]
    /\ wd_nonces = [f \in Farmers |-> <<>>]

(***************************************************************************)
(* Borsh (de)serialization.  try_from_slice fails unless the value fills   *)
(* the slice exactly; serialize into a slice fails when the value is       *)
(* longer than the slice, after writing the bytes that fit.                *)
(***************************************************************************)
\* the account data a processor reads at the reward-pool slot: the program's
\* own account, or data chosen by whoever made the account at another key
RewardPoolDataAt(key, signer) ==
    IF key = find_program_address(get_reward_pool_seeds) THEN reward_pool
    ELSE RewardPool(TRUE, TRUE, signer, 0, 0, 0, FALSE)

\* bytes of a serialized RewardPool: bool, Pubkey, u8, u64, u64, bool
RewardPoolSerializedLen == 1 + 32 + 1 + 8 + 8 + 1

\* RewardPool::try_from_slice over the whole data of the account, which
\* create_account allocated with RewardPool::LEN bytes
RewardPool_try_from_slice(data) ==
    /\ data.allocated
    /\ RewardPoolSerializedLen = RewardPool_LEN

\* bytes of a serialized FarmerAccount: bool, Pubkey and four u64
FarmerAccountSerializedLen == 1 + 32 + 8 + 8 + 8 + 8

\* FarmerAccount::try_from_slice over the whole data of the account, which
\* create_account allocated with FarmerAccount::LEN bytes
FarmerAccount_try_from_slice(data) ==
    /\ data.allocated
    /\ FarmerAccountSerializedLen = FarmerAccount_LEN

\* bytes of a serialized TaskCompletionRecord: two length-prefixed strings
TaskRecordSerializedLen(rec) ==
    1 + (4 + TaskIdLen(rec.task_id)) + 32 + (4 + rec.pool_id_len) + 8 + 32 + 1 + 8

\* TaskCompletionRecord::try_from_slice over the whole account data
TaskRecord_try_from_slice(data) ==
    /\ data.allocated
    /\ TaskRecordSerializedLen(data) = TaskCompletionRecord_LEN

\* TaskCompletionRecord::serialize into the account data
TaskRecord_serialize_fits(rec) ==
    TaskRecordSerializedLen(rec) <= TaskCompletionRecord_LEN

(***************************************************************************)
(* u64 arithmetic as the build compiles it: an overflowing += or * panics  *)
(* in a build with overflow checks (overflow_checks = TRUE in the          *)
(* processors below) and wraps modulo 2^64 in a build without.             *)
(***************************************************************************)
Overflows(x) == x > U64_MAX
Wrap(x) == x % U64_MOD

(***************************************************************************)
(* The outcome of a processor: the result code, the place it returned at   *)
(* and the account data it leaves behind.                                  *)
(***************************************************************************)
Outcome(code, at, pool, farmers, tasks, tokens) ==
    [code |-> code, at |-> at, pool |-> pool, farmers |-> farmers,
     tasks |-> tasks, tokens |-> tokens, total |-> 0, fee |-> 0, pct |-> 0]

\* return before any write
Reject(code, at) ==
    Outcome(code, at, reward_pool, farmer_accounts, task_records, token_amounts)

FeeWithinRange_NoCheck(fee) == TRUE

\* the fee percentage test of InitializeRewardPool and UpdatePlatformFee
FeeWithinRange(fee) == ~(fee > 100)

PoolAuthorityMatches_NoCheck(pool, authority) == TRUE
PoolAuthorityMatches_UnlessPaused(pool, authority) ==
    pool.platform_authority = authority /\ ~pool.is_paused

\* the authority test of SetPaused, UpdatePlatformFee and RecordTaskCompletion:
\* reward_pool.platform_authority != *platform_authority.key is rejected
PoolAuthorityMatches(pool, authority) == ~(pool.platform_authority # authority)

PoolIsPaused_NoCheck(pool) == FALSE

\* the pause test of RecordTaskCompletion and WithdrawRewards
PoolIsPaused(pool) == pool.is_paused

PoolAccountInUse_NoCheck(reward_pool_account) == FALSE

\* create_account of the reward pool is refused by the system program when
\* the account at the reward pool address is already allocated
PoolAccountInUse(reward_pool_account) == reward_pool_account.allocated

TaskAccountInUse_NoCheck(task_record_account) == FALSE

\* create_account of the task record is refused by the system program when
\* the account at the task record address is already allocated
TaskAccountInUse(task_record_account) == task_record_account.allocated

(***************************************************************************)
(* process_initialize_reward_pool                                          *)
(***************************************************************************)
process_initialize_reward_pool(pool_key, authority, is_signer, fee) ==
    IF ~FeeWithinRange(fee) THEN Reject("InvalidFeePercentage", "fee")
    ELSE IF ~is_signer THEN Reject("MissingRequiredSignature", "signer")
    ELSE IF pool_key # find_program_address(get_reward_pool_seeds)
        THEN Reject("InvalidSeeds", "pool_pda")
    ELSE IF PoolAccountInUse(reward_pool)
        THEN Reject("AccountAlreadyInUse", "create_pool")
    ELSE Outcome("Ok", "end",
                 RewardPool(TRUE, TRUE, authority, fee, 0, 0, FALSE),
                 farmer_accounts, task_records, token_amounts)

(***************************************************************************)
(* process_set_paused                                                      *)
(***************************************************************************)
process_set_paused(pool_key, authority, is_signer, is_paused) ==
    LET pool == RewardPoolDataAt(pool_key, authority) IN
    IF ~is_signer THEN Reject("MissingRequiredSignature", "signer")
    ELSE IF pool_key # find_program_address(get_reward_pool_seeds)
        THEN Reject("InvalidSeeds", "pool_pda")
    ELSE IF ~RewardPool_try_from_slice(pool) THEN Reject("BorshIoError", "load_pool")
    ELSE IF ~pool.is_initialized THEN Reject("AccountNotInitialized", "load_pool")
    ELSE IF ~PoolAuthorityMatches(pool, authority)
        THEN Reject("UnauthorizedPlatform", "authority")
    ELSE Outcome("Ok", "end", [pool EXCEPT !.is_paused = is_paused],
                 farmer_accounts, task_records, token_amounts)

(***************************************************************************)
(* process_update_platform_fee                                             *)
(***************************************************************************)
process_update_platform_fee(pool_key, authority, is_signer, new_fee) ==
    LET pool == RewardPoolDataAt(pool_key, authority) IN
    IF ~FeeWithinRange(new_fee) THEN Reject("InvalidFeePercentage", "fee")
    ELSE IF ~is_signer THEN Reject("MissingRequiredSignature", "signer")
    ELSE IF pool_key # find_program_address(get_reward_pool_seeds)
        THEN Reject("InvalidSeeds", "pool_pda")
    ELSE IF ~RewardPool_try_from_slice(pool) THEN Reject("BorshIoError", "load_pool")
    ELSE IF ~pool.is_initialized THEN Reject("AccountNotInitialized", "load_pool")
    ELSE IF ~PoolAuthorityMatches(pool, authority)
        THEN Reject("UnauthorizedPlatform", "authority")
    ELSE Outcome("Ok", "end", [pool EXCEPT !.platform_fee_percentage = new_fee],
                 farmer_accounts, task_records, token_amounts)

(***************************************************************************)
(* process_record_task_completion                                          *)
(***************************************************************************)
EarnedAfter_AtLeastOne(earned, reward_amount) ==
    (earned + (IF reward_amount = 0 THEN 1 ELSE reward_amount)) % U64_MOD

\* total_rewards_earned += reward_amount, without the overflow
EarnedAfter(earned, reward_amount) == Wrap(earned + reward_amount)

process_record_task_completion(pool_key, farmer_key, task_key, farmer, token_mint, authority, is_signer, task_id, pool_id_len, reward_amount, overflow_checks) ==
    LET pool == RewardPoolDataAt(pool_key, authority)
        stored == farmer_accounts[farmer]
        \* the farmer account after the create_account of a new farmer
        farmers1 == IF stored.allocated THEN farmer_accounts
                    ELSE [farmer_accounts EXCEPT ![farmer] = ZeroedFarmerAccount]
        farmer_data == IF stored.allocated THEN stored
                       ELSE FarmerAccount(TRUE, TRUE, farmer, 0, 0, 0, 0)
        \* the task record account after its create_account
        tasks1 == [task_records EXCEPT ![task_id] = ZeroedTaskRecord]
        task_record == TaskCompletionRecord(TRUE, TRUE, task_id, farmer, pool_id_len,
                                            reward_amount, token_mint, FALSE, slot)
        farmers2 == [farmers1 EXCEPT ![farmer] =
                        [farmer_data EXCEPT !.total_rewards_earned =
                            EarnedAfter(farmer_data.total_rewards_earned, reward_amount)]]
        tasks2 == [tasks1 EXCEPT ![task_id] = task_record]
    IN
    IF ~is_signer THEN Reject("MissingRequiredSignature", "signer")
    ELSE IF ~RewardPool_try_from_slice(pool) THEN Reject("BorshIoError", "load_pool")
    ELSE IF ~pool.is_initialized THEN Reject("AccountNotInitialized", "load_pool")
    ELSE IF ~PoolAuthorityMatches(pool, authority)
        THEN Reject("UnauthorizedPlatform", "authority")
    ELSE IF PoolIsPaused(pool) THEN Reject("RewardPoolPaused", "paused")
    ELSE IF pool_key # find_program_address(get_reward_pool_seeds)
        THEN Reject("InvalidSeeds", "pool_pda")
    ELSE IF farmer_key # find_program_address(get_farmer_account_seeds(farmer))
        THEN Reject("InvalidSeeds", "farmer_pda")
    ELSE IF TaskIdLen(task_id) > MAX_SEED_LEN THEN Reject("Panic", "task_pda")
    ELSE IF task_key # find_program_address(get_task_record_seeds(task_id))
        THEN Reject("InvalidSeeds", "task_pda")
    ELSE IF stored.allocated /\ ~stored.is_initialized
        THEN Reject("AccountNotInitialized", "load_farmer")
    ELSE IF stored.allocated /\ stored.farmer_address # farmer
        THEN Reject("InvalidFarmerAddress", "load_farmer")
    ELSE IF TaskAccountInUse(task_records[task_id])
        THEN Outcome("AccountAlreadyInUse", "create_task",
                     reward_pool, farmers1, task_records, token_amounts)
    ELSE IF Overflows(farmer_data.total_rewards_earned + reward_amount) /\ overflow_checks
        THEN Outcome("Panic", "earned_add", reward_pool, farmers1, tasks1, token_amounts)
    ELSE IF ~TaskRecord_serialize_fits(task_record)
        THEN Outcome("BorshIoError", "save_task", pool, farmers2, tasks2, token_amounts)
    ELSE Outcome("Ok", "end", pool, farmers2, tasks2, token_amounts)

(***************************************************************************)
(* process_withdraw_rewards                                                *)
(***************************************************************************)
NonceMatches_NoCheck(stored_nonce, expected_nonce) == TRUE

\* the nonce test: farmer_data.withdrawal_nonce != expected_nonce is rejected
NonceMatches(stored_nonce, expected_nonce) == ~(stored_nonce # expected_nonce)

TaskIsClaimed_NoCheck(task_record) == FALSE

\* the claimed test of the task loop
TaskIsClaimed(task_record) == task_record.is_claimed

TaskFarmerMatches_NoCheck(task_record, farmer) == TRUE

\* the farmer test of the task loop:
\* task_record.farmer_address != *farmer.key is rejected
TaskFarmerMatches(task_record, farmer) == ~(task_record.farmer_address # farmer)

TotalIsZero_NoCheck(total_reward_amount) == FALSE

\* the test after the task loop: total_reward_amount == 0 is rejected
TotalIsZero(total_reward_amount) == total_reward_amount = 0

MarkClaimed_ClearsAmount(task_record) ==
    [task_record EXCEPT !.is_claimed = TRUE, !.reward_amount = 0]

\* updated_task_record: the record read, with is_claimed = true
MarkClaimed_NotYet(task_record) == task_record
MarkClaimed(task_record) == [task_record EXCEPT !.is_claimed = TRUE]

WithdrawnAfter_Keep(withdrawn, total_reward_amount) == withdrawn

\* farmer_data.total_rewards_withdrawn += total_reward_amount, without the
\* overflow
WithdrawnAfter(withdrawn, total_reward_amount) ==
    Wrap(withdrawn + total_reward_amount)

NonceAfter_Keep(nonce) == nonce
NonceAfter_Skip(nonce) == (nonce + 2) % U64_MOD

\* farmer_data.withdrawal_nonce += 1, without the overflow
NonceAfter(nonce) == Wrap(nonce + 1)

\* the data of the farmer account passed at farmer_key
FarmerDataAt(farmer_key) == farmer_accounts[farmer_key[2]]

LoopResult(code, at, tasks, total, mint) ==
    [code |-> code, at |-> at, tasks |-> tasks, total |-> total, mint |-> mint]

\* The loop over task_ids.  tasks is the task record data as the iterations
\* so far have left it: each iteration serializes its record with
\* is_claimed = true before the next one starts.  provided is the set of task
\* ids whose record account is in the instruction's account list.
RECURSIVE process_tasks(_, _, _, _, _, _, _)
process_tasks(task_ids, provided, farmer, tasks, total, mint, overflow_checks) ==
    IF task_ids = <<>> THEN LoopResult("Ok", "loop", tasks, total, mint)
    ELSE
        LET task_id == Head(task_ids)
            task_record == tasks[task_id]
        IN
        IF TaskIdLen(task_id) > MAX_SEED_LEN
            THEN LoopResult("Panic", "task_pda", tasks, total, mint)
        ELSE IF task_id \notin provided
            THEN LoopResult("TaskNotFound", "task_find", tasks, total, mint)
        ELSE IF ~TaskRecord_try_from_slice(task_record)
            THEN LoopResult("BorshIoError", "task_load", tasks, total, mint)
        ELSE IF ~task_record.is_initialized
            THEN LoopResult("AccountNotInitialized", "task_load", tasks, total, mint)
        ELSE IF ~TaskFarmerMatches(task_record, farmer)
            THEN LoopResult("InvalidFarmerAddress", "task_farmer", tasks, total, mint)
        ELSE IF TaskIsClaimed(task_record)
            THEN LoopResult("TaskAlreadyClaimed", "task_claimed", tasks, total, mint)
        ELSE IF mint # "" /\ mint # task_record.token_mint
            THEN LoopResult("InvalidArgument", "task_mint", tasks, total, mint)
        ELSE IF Overflows(total + task_record.reward_amount) /\ overflow_checks
            THEN LoopResult("Panic", "total_add", tasks, total, mint)
        ELSE process_tasks(Tail(task_ids), provided, farmer,
                           [tasks EXCEPT ![task_id] = MarkClaimed(task_record)],
                           Wrap(total + task_record.reward_amount),
                           task_record.token_mint, overflow_checks)

\* platform_fee_amount = (total * fee as u64) / 100, without the overflow
PlatformFeeAmount(total, pct) == Wrap(total * pct) \div 100

\* spl_token transfer of amount from src to dst: refused when the source
\* holds less or the destination would overflow; a self-transfer moves nothing
TransferAccepted(tokens, src, dst, amount) ==
    /\ tokens[src] >= amount
    /\ (src = dst \/ tokens[dst] + amount <= U64_MAX)

TransferApplied(tokens, src, dst, amount) ==
    IF src = dst THEN tokens
    ELSE [tokens EXCEPT ![src] = @ - amount, ![dst] = @ + amount]

process_withdraw_rewards(pool_key, farmer_key, vault_key, farmer_token_key, treasury_key, farmer, is_signer, task_ids, expected_nonce, provided, farmer_leg_ok, fee_leg_ok, overflow_checks) ==
    LET pool == RewardPoolDataAt(pool_key, farmer)
        farmer_data == FarmerDataAt(farmer_key)
        loop == process_tasks(task_ids, provided, farmer, task_records, 0, "",
                              overflow_checks)
        total == loop.total
        pct == pool.platform_fee_percentage
        platform_fee_amount == PlatformFeeAmount(total, pct)
        farmer_reward_amount == total - platform_fee_amount
        tokens1 == IF farmer_reward_amount > 0
                   THEN TransferApplied(token_amounts, vault_key, farmer_token_key,
                                        farmer_reward_amount)
                   ELSE token_amounts
        tokens2 == IF platform_fee_amount > 0
                   THEN TransferApplied(tokens1, vault_key, treasury_key,
                                        platform_fee_amount)
                   ELSE tokens1
        \* what a return after the loop leaves behind
        After(code, at, tokens) ==
            Outcome(code, at, reward_pool, farmer_accounts, loop.tasks, tokens)
        farmer_saved ==
            [farmer_data EXCEPT
                !.withdrawal_nonce = NonceAfter(@),
                !.total_rewards_withdrawn = WithdrawnAfter(@, total),
                !.last_withdrawal_slot = slot]
        pool_saved ==
            [pool EXCEPT
                !.total_rewards_distributed = Wrap(@ + farmer_reward_amount),
                !.total_platform_fees_collected = Wrap(@ + platform_fee_amount)]
    IN
    IF ~is_signer THEN Reject("MissingRequiredSignature", "signer")
    ELSE IF ~RewardPool_try_from_slice(pool) THEN Reject("BorshIoError", "load_pool")
    ELSE IF ~pool.is_initialized THEN Reject("AccountNotInitialized", "load_pool")
    ELSE IF PoolIsPaused(pool) THEN Reject("RewardPoolPaused", "paused")
    ELSE IF ~FarmerAccount_try_from_slice(farmer_data)
        THEN Reject("BorshIoError", "load_farmer")
    ELSE IF ~farmer_data.is_initialized
        THEN Reject("AccountNotInitialized", "load_farmer")
    ELSE IF farmer_data.farmer_address # farmer
        THEN Reject("InvalidFarmerAddress", "load_farmer")
    ELSE IF ~NonceMatches(farmer_data.withdrawal_nonce, expected_nonce)
        THEN Reject("InvalidNonce", "nonce")
    ELSE IF pool_key # find_program_address(get_reward_pool_seeds)
        THEN Reject("InvalidSeeds", "pool_pda")
    ELSE IF farmer_key # find_program_address(get_farmer_account_seeds(farmer))
        THEN Reject("InvalidSeeds", "farmer_pda")
    ELSE IF loop.code # "Ok" THEN After(loop.code, loop.at, token_amounts)
    ELSE IF TotalIsZero(total)
        THEN After("InvalidArgument", "total_zero", token_amounts)
    ELSE IF vault_key # find_program_address(get_reward_vault_seeds(loop.mint))
        THEN After("InvalidSeeds", "vault_pda", token_amounts)
    ELSE IF Overflows(total * pct) /\ overflow_checks
        THEN After("Panic", "fee_mul", token_amounts)
    ELSE IF TokenMintOf(vault_key) # loop.mint
        THEN After("InvalidTokenAccount", "vault_mint", token_amounts)
    ELSE IF token_amounts[vault_key] < total
        THEN After("InsufficientTokenBalance", "vault_amount", token_amounts)
    ELSE IF TokenMintOf(farmer_token_key) # loop.mint
        THEN After("InvalidTokenAccount", "farmer_token_mint", token_amounts)
    ELSE IF TokenMintOf(treasury_key) # loop.mint
        THEN After("InvalidTokenAccount", "treasury_mint", token_amounts)
    ELSE IF /\ farmer_reward_amount > 0
            /\ ~(farmer_leg_ok /\ TransferAccepted(token_amounts, vault_key,
                                                   farmer_token_key, farmer_reward_amount))
        THEN After("TokenError", "transfer_farmer", token_amounts)
    ELSE IF /\ platform_fee_amount > 0
            /\ ~(fee_leg_ok /\ TransferAccepted(tokens1, vault_key, treasury_key,
                                                platform_fee_amount))
        THEN After("TokenError", "transfer_fee", tokens1)
    ELSE IF /\ overflow_checks
            /\ \/ Overflows(farmer_data.withdrawal_nonce + 1)
               \/ Overflows(farmer_data.total_rewards_withdrawn + total)
        THEN After("Panic", "withdrawn_add", tokens2)
    ELSE IF /\ overflow_checks
            /\ \/ Overflows(pool.total_rewards_distributed + farmer_reward_amount)
               \/ Overflows(pool.total_platform_fees_collected + platform_fee_amount)
        THEN After("Panic", "stats_add", tokens2)
    ELSE [Outcome("Ok", "end", pool_saved,
                  [farmer_accounts EXCEPT ![farmer] = farmer_saved],
                  loop.tasks, tokens2)
            EXCEPT !.total = total, !.fee = platform_fee_amount, !.pct = pct]

(***************************************************************************)
(* Actions: one per instruction, the delivery of its result, and the       *)
(* clock.  Instructions are processed one at a time.                       *)
(***************************************************************************)
\* task_ids vectors of at most MaxBatch ids
Batches == UNION {[1..n -> TaskIds] : n \in 0..MaxBatch}
\* which task record accounts the caller lists: all, or all but t1's
ProvidedSets == {TaskIds, TaskIds \ {"t1"}}
\* signers of the administrative instructions
Authorities == {"pa", "f1"}
\* the token accounts passed as reward vault, farmer account and treasury
VaultChoices == {find_program_address(get_reward_vault_seeds("m1")),
                 find_program_address(get_reward_vault_seeds("m2")),
                 <<"token", "tr_m1">>}
FarmerTokenChoices == {<<"token", "f1_m1">>, <<"token", "tr_m2">>}
TreasuryChoices == {<<"token", "tr_m1">>, <<"token", "tr_m2">>, <<"token", "f1_m1">>}

InBatch(task_ids, t) == \E i \in 1..Len(task_ids) : task_ids[i] = t
Repeats(task_ids) ==
    \E i \in 1..Len(task_ids), j \in 1..Len(task_ids) :
        i # j /\ task_ids[i] = task_ids[j]

NoCall == Last("none", "Ok", "none", "", FALSE, FALSE, FALSE, 0, 0, 0)
Idle == last.op = "none"

\* the processor's outcome becomes the next state
Apply(op, out, caller, farmer, expected_nonce, task_ids) ==
    LET withdrawn == op = "WithdrawRewards" /\ out.code = "Ok" IN
    /\ reward_pool' = out.pool
    /\ farmer_accounts' = out.farmers
    /\ task_records' = out.tasks
    /\ token_amounts' = out.tokens
    /\ last' = Last(op, out.code, out.at, caller,
                    /\ op = "WithdrawRewards"
                    /\ farmer \in Farmers
                    /\ farmer_accounts[farmer].is_initialized
                    /\ farmer_accounts[farmer].withdrawal_nonce # expected_nonce,
                    op = "WithdrawRewards" /\ task_ids = <<>>,
                    op = "WithdrawRewards" /\ Repeats(task_ids),
                    out.total, out.fee, out.pct)
    /\ paid' = IF withdrawn
               THEN [t \in TaskIds |->
                        IF InBatch(task_ids, t) /\ paid[t] < 2 THEN paid[t] + 1
                        ELSE paid[t]]
               ELSE paid
    /\ wd_nonces' = IF withdrawn
                    THEN [wd_nonces EXCEPT ![farmer] = Append(@, expected_nonce)]
                    ELSE wd_nonces
    /\ UNCHANGED <<universe, slot>>

\* The inputs a check reads are chosen when the processor reaches the check:
\* a call that returns earlier has the same outcome whatever they are, and is
\* taken once, with the inputs it has not read at a default.
PoolPda == find_program_address(get_reward_pool_seeds)
VaultM1 == find_program_address(get_reward_vault_seeds("m1"))

InitializeRewardPool ==
    /\ Idle
    /\ \E fee \in universe.fees :
        LET Run(is_signer, pool_key, authority) ==
                process_initialize_reward_pool(pool_key, authority, is_signer, fee)
            Done(out, caller) ==
                Apply("InitializeRewardPool", out, caller, "", 0, <<>>)
            o1 == Run(TRUE, PoolPda, "pa")
        IN
        IF o1.at = "fee" THEN Done(o1, "pa")
        ELSE \E is_signer \in BOOLEAN :
            LET o2 == Run(is_signer, PoolPda, "pa") IN
            IF o2.at = "signer" THEN Done(o2, "")
            ELSE \E pool_key \in PoolKeys :
                LET o3 == Run(is_signer, pool_key, "pa") IN
                IF o3.at = "pool_pda" THEN Done(o3, "pa")
                ELSE \E authority \in Authorities :
                    Done(Run(is_signer, pool_key, authority), authority)

SetPaused ==
    /\ Idle
    /\ \E is_signer \in BOOLEAN :
        LET Run(pool_key, authority, is_paused) ==
                process_set_paused(pool_key, authority, is_signer, is_paused)
            Done(out, caller) == Apply("SetPaused", out, caller, "", 0, <<>>)
            o1 == Run(PoolPda, "pa", TRUE)
        IN
        IF o1.at = "signer" THEN Done(o1, "")
        ELSE \E pool_key \in PoolKeys :
            LET o2 == Run(pool_key, "pa", TRUE) IN
            IF o2.at \in {"pool_pda", "load_pool"} THEN Done(o2, "pa")
            ELSE \E authority \in Authorities :
                LET o3 == Run(pool_key, authority, TRUE) IN
                IF o3.at = "authority" THEN Done(o3, authority)
                ELSE \E is_paused \in BOOLEAN :
                    Done(Run(pool_key, authority, is_paused), authority)

UpdatePlatformFee ==
    /\ Idle
    /\ \E new_fee \in universe.fees :
        LET Run(is_signer, pool_key, authority) ==
                process_update_platform_fee(pool_key, authority, is_signer, new_fee)
            Done(out, caller) ==
                Apply("UpdatePlatformFee", out, caller, "", 0, <<>>)
            o1 == Run(TRUE, PoolPda, "pa")
        IN
        IF o1.at = "fee" THEN Done(o1, "pa")
        ELSE \E is_signer \in BOOLEAN :
            LET o2 == Run(is_signer, PoolPda, "pa") IN
            IF o2.at = "signer" THEN Done(o2, "")
            ELSE \E pool_key \in PoolKeys :
                LET o3 == Run(is_signer, pool_key, "pa") IN
                IF o3.at \in {"pool_pda", "load_pool"} THEN Done(o3, "pa")
                ELSE \E authority \in Authorities :
                    Done(Run(is_signer, pool_key, authority), authority)

RecordTaskCompletion ==
    /\ Idle
    /\ \E is_signer \in BOOLEAN :
        LET Run(pool_key, authority, farmer, farmer_key, task_id, task_key,
                token_mint, pool_id_len, reward_amount, overflow_checks) ==
                process_record_task_completion(
                    pool_key, farmer_key, task_key, farmer, token_mint, authority,
                    is_signer, task_id, pool_id_len, reward_amount, overflow_checks)
            Done(out, caller, farmer) ==
                Apply("RecordTaskCompletion", out, caller, farmer, 0, <<>>)
            F1Key == find_program_address(get_farmer_account_seeds("f1"))
            T1Key == find_program_address(get_task_record_seeds("t1"))
            o1 == Run(PoolPda, "pa", "f1", F1Key, "t1", T1Key, "m1", 118, 0, TRUE)
        IN
        IF o1.at = "signer" THEN Done(o1, "", "")
        ELSE \E pool_key \in PoolKeys, authority \in Authorities :
            LET o2 == Run(pool_key, authority, "f1", F1Key, "t1", T1Key,
                          "m1", 118, 0, TRUE)
            IN
            IF o2.at \in {"load_pool", "authority", "paused", "pool_pda"}
            THEN Done(o2, authority, "")
            ELSE \E farmer \in Farmers, farmer_key \in FarmerKeys :
                LET o3 == Run(pool_key, authority, farmer, farmer_key, "t1", T1Key,
                              "m1", 118, 0, TRUE)
                IN
                IF o3.at = "farmer_pda" THEN Done(o3, authority, farmer)
                ELSE \E task_id \in TaskIds, task_key \in TaskKeys :
                    LET o4 == Run(pool_key, authority, farmer, farmer_key, task_id,
                                  task_key, "m1", 118, 0, TRUE)
                    IN
                    IF o4.at \in {"task_pda", "load_farmer", "create_task"}
                    THEN Done(o4, authority, farmer)
                    ELSE \E token_mint \in universe.mints,
                            pool_id_len \in universe.pool_id_lens,
                            reward_amount \in universe.rewards,
                            overflow_checks \in universe.builds :
                        Done(Run(pool_key, authority, farmer, farmer_key, task_id,
                                 task_key, token_mint, pool_id_len, reward_amount,
                                 overflow_checks), authority, farmer)

WithdrawRewards ==
    /\ Idle
    /\ \E is_signer \in BOOLEAN :
        LET Run(pool_key, farmer, farmer_key, expected_nonce, task_ids, provided,
                overflow_checks, vault_key, farmer_token_key, treasury_key,
                farmer_leg_ok, fee_leg_ok) ==
                process_withdraw_rewards(
                    pool_key, farmer_key, vault_key, farmer_token_key, treasury_key,
                    farmer, is_signer, task_ids, expected_nonce, provided,
                    farmer_leg_ok, fee_leg_ok, overflow_checks)
            Done(out, farmer, expected_nonce, task_ids) ==
                Apply("WithdrawRewards", out, IF is_signer THEN farmer ELSE "",
                      farmer, expected_nonce, task_ids)
            F1Key == find_program_address(get_farmer_account_seeds("f1"))
            TrM1 == <<"token", "tr_m1">>
            o1 == Run(PoolPda, "f1", F1Key, 0, <<>>, TaskIds, TRUE,
                      VaultM1, VaultM1, VaultM1, TRUE, TRUE)
        IN
        IF o1.at = "signer" THEN Done(o1, "", 0, <<>>)
        ELSE \E pool_key \in PoolKeys, farmer \in Farmers, farmer_key \in FarmerKeys,
                expected_nonce \in 0..MaxNonce :
            LET o2 == Run(pool_key, farmer, farmer_key, expected_nonce, <<>>, TaskIds,
                          TRUE, VaultM1, VaultM1, VaultM1, TRUE, TRUE)
            IN
            IF o2.at \in {"load_pool", "paused", "load_farmer", "nonce", "pool_pda",
                          "farmer_pda"}
            THEN Done(o2, farmer, expected_nonce, <<>>)
            ELSE \E task_ids \in Batches, overflow_checks \in universe.builds :
                \E provided \in IF InBatch(task_ids, "t1") THEN ProvidedSets
                                ELSE {TaskIds} :
                LET o3 == Run(pool_key, farmer, farmer_key, expected_nonce,
                              task_ids, provided, overflow_checks,
                              VaultM1, VaultM1, VaultM1, TRUE, TRUE)
                IN
                IF o3.at \in {"task_pda", "task_find", "task_load", "task_farmer",
                              "task_claimed", "task_mint", "total_add", "total_zero"}
                THEN Done(o3, farmer, expected_nonce, task_ids)
                ELSE \E vault_key \in VaultChoices :
                    LET o4 == Run(pool_key, farmer, farmer_key, expected_nonce,
                                  task_ids, provided, overflow_checks, vault_key,
                                  vault_key, vault_key, TRUE, TRUE)
                    IN
                    IF o4.at \in {"vault_pda", "fee_mul", "vault_mint", "vault_amount"}
                    THEN Done(o4, farmer, expected_nonce, task_ids)
                    ELSE \E farmer_token_key \in FarmerTokenChoices,
                            treasury_key \in TreasuryChoices :
                        LET o5 == Run(pool_key, farmer, farmer_key, expected_nonce,
                                      task_ids, provided, overflow_checks, vault_key,
                                      farmer_token_key, treasury_key, TRUE, TRUE)
                        IN
                        IF o5.at \in {"farmer_token_mint", "treasury_mint"}
                        THEN Done(o5, farmer, expected_nonce, task_ids)
                        ELSE \E farmer_leg_ok \in BOOLEAN, fee_leg_ok \in BOOLEAN :
                            Done(Run(pool_key, farmer, farmer_key, expected_nonce,
                                     task_ids, provided, overflow_checks, vault_key,
                                     farmer_token_key, treasury_key, farmer_leg_ok,
                                     fee_leg_ok),
                                 farmer, expected_nonce, task_ids)

\* the result of the instruction is returned to the caller
Return ==
    /\ ~Idle
    /\ last' = NoCall
    /\ UNCHANGED <<universe, reward_pool, farmer_accounts, task_records,
                   token_amounts, slot, paid, wd_nonces>>

\* the slot of the clock sysvar advances between instructions
Tick ==
    /\ Idle
    /\ slot < universe.last_slot
    /\ slot' = slot + 1
    /\ UNCHANGED <<universe, reward_pool, farmer_accounts, task_records,
                   token_amounts, last, paid, wd_nonces>>

Next ==
    \/ InitializeRewardPool
    \/ SetPaused
    \/ UpdatePlatformFee
    \/ RecordTaskCompletion
    \/ WithdrawRewards
    \/ Return
    \/ Tick

Spec == Init /\ [][Next]_vars

(***************************************************************************)
(* Properties.                                                             *)
(***************************************************************************)
Nonce(f) == farmer_accounts[f].withdrawal_nonce
\* the farmer of the successful withdrawal this step makes, if it makes one
Withdraws(f) == Len(wd_nonces'[f]) > Len(wd_nonces[f])
RecordsUnchanged ==
    /\ reward_pool' = reward_pool
    /\ farmer_accounts' = farmer_accounts
    /\ task_records' = task_records

\* C1: a WithdrawRewards that fails a per-task check (task not found, wrong
\* farmer, already claimed, another mint than the batch's, overflowing total)
\* leaves every task record's claimed flag, every farmer account and the
\* reward pool as they were before the call.
C1_FailedBatchChangesNothing ==
    [][(/\ last'.op = "WithdrawRewards"
        /\ last'.at \in {"task_find", "task_farmer", "task_claimed", "task_mint",
                         "total_add"})
       => RecordsUnchanged]_vars

\* C2: the claimed flag of a task record is never reset, and no task id is in
\* more than one successful WithdrawRewards.
C2_ClaimedAtMostOnce ==
    [][\A t \in TaskIds :
        /\ task_records[t].is_claimed => task_records'[t].is_claimed
        /\ paid'[t] <= 1]_vars

\* a task that was paid is refused by a later WithdrawRewards
C2_Witness ==
    /\ last.op = "WithdrawRewards"
    /\ last.code = "TaskAlreadyClaimed"
    /\ \E t \in TaskIds : paid[t] = 1

\* C3: a WithdrawRewards whose expected_nonce is not the farmer's stored
\* withdrawal_nonce fails, and leaves the reward pool, the farmer accounts, the
\* task records and the token amounts unchanged.
C3_WrongNonceRejected ==
    [][last'.nonce_differs
       => /\ last'.code # "Ok"
          /\ RecordsUnchanged
          /\ token_amounts' = token_amounts]_vars

\* a farmer who has withdrawn is refused with InvalidNonce
C3_Witness ==
    /\ last.op = "WithdrawRewards"
    /\ last.code = "InvalidNonce"
    /\ last.nonce_differs
    /\ \E f \in Farmers : Len(wd_nonces[f]) >= 1 /\ Nonce(f) >= 1

\* C4: a step changes a farmer's withdrawal_nonce exactly when it is a
\* successful WithdrawRewards of that farmer, and then by exactly one.
C4_NonceStepsByOne ==
    [][\A f \in Farmers :
        farmer_accounts'[f].withdrawal_nonce =
            IF Withdraws(f) THEN Nonce(f) + 1 ELSE Nonce(f)]_vars

\* one successful withdrawal of a batch of two tasks: the nonce is 1
C4_Witness ==
    /\ last.op = "WithdrawRewards"
    /\ last.code = "Ok"
    /\ paid["t1"] = 1 /\ paid["t2"] = 1
    /\ \E f \in Farmers : Len(wd_nonces[f]) = 1 /\ Nonce(f) = 1

\* C5: the k-th successful WithdrawRewards of a farmer (k = 0, 1, ...) carried
\* expected_nonce = k, so no two of them carried the same expected_nonce.
C5_NonceSequence ==
    \A f \in Farmers :
        \A k \in 1..Len(wd_nonces[f]) : wd_nonces[f][k] = k - 1

\* a farmer has made two successful withdrawals
C5_Witness == \E f \in Farmers : Len(wd_nonces[f]) = 2

\* C6: an error leaves no partial state; the instance stated here is the one
\* the claim singles out: when a token transfer of WithdrawRewards fails, no
\* task record, farmer account or reward pool field has changed.
C6_FailedTransferChangesNothing ==
    [][(/\ last'.op = "WithdrawRewards"
        /\ last'.at \in {"transfer_farmer", "transfer_fee"})
       => RecordsUnchanged]_vars

\* C7: a RecordTaskCompletion that fails leaves every record unchanged: no
\* farmer account and no task record is created or modified.
C7_FailedRecordChangesNothing ==
    [][(last'.op = "RecordTaskCompletion" /\ last'.code # "Ok")
       => RecordsUnchanged]_vars

\* C8: the additions are overflow-checked, so that no counter ever holds a
\* wrapped value: a sum that wrapped is smaller than its operands, hence no
\* instruction lowers total_rewards_earned, total_rewards_withdrawn,
\* total_rewards_distributed or total_platform_fees_collected.
C8_CheckedAdditions ==
    [][/\ \A f \in Farmers :
            /\ farmer_accounts'[f].total_rewards_earned
                    >= farmer_accounts[f].total_rewards_earned
            /\ farmer_accounts'[f].total_rewards_withdrawn
                    >= farmer_accounts[f].total_rewards_withdrawn
       /\ reward_pool'.total_rewards_distributed
                >= reward_pool.total_rewards_distributed
       /\ reward_pool'.total_platform_fees_collected
                >= reward_pool.total_platform_fees_collected]_vars

\* C9: in every successful WithdrawRewards the fee is
\* floor(total * fee percentage / 100), computed without wrap-around of the
\* product, and is at most the total.
C9_ExactFee ==
    (last.op = "WithdrawRewards" /\ last.code = "Ok")
        => /\ last.fee = (last.total * last.pct) \div 100
           /\ last.fee <= last.total

\* C10: the fee percentage of the reward pool is always in 0..100; an
\* instruction refused with InvalidFeePercentage leaves the reward pool
\* unchanged, and only a successful InitializeRewardPool or UpdatePlatformFee
\* changes the fee percentage.
C10_FeeWithinRange ==
    /\ [](reward_pool.platform_fee_percentage \in 0..100)
    /\ [][/\ last'.code = "InvalidFeePercentage" => reward_pool' = reward_pool
          /\ (\/ last'.op \notin {"InitializeRewardPool", "UpdatePlatformFee"}
              \/ last'.code # "Ok")
             => reward_pool'.platform_fee_percentage
                    = reward_pool.platform_fee_percentage]_vars

\* an UpdatePlatformFee of an initialized pool was refused for its percentage
C10_Witness ==
    /\ last.op = "UpdatePlatformFee"
    /\ last.code = "InvalidFeePercentage"
    /\ reward_pool.is_initialized

\* C11: while the reward pool is paused, every RecordTaskCompletion and every
\* WithdrawRewards fails, whoever calls it and with whatever arguments, and
\* leaves the reward pool, the farmer accounts, the task records and the token
\* amounts unchanged.
C11_PausedBlocksRecordAndWithdraw ==
    [][(/\ reward_pool.is_initialized
        /\ reward_pool.is_paused
        /\ last'.op \in {"RecordTaskCompletion", "WithdrawRewards"})
       => /\ last'.code # "Ok"
          /\ RecordsUnchanged
          /\ token_amounts' = token_amounts]_vars

\* a WithdrawRewards is refused for the pause while a reward is waiting
C11_Witness ==
    /\ last.op = "WithdrawRewards"
    /\ last.code = "RewardPoolPaused"
    /\ reward_pool.is_paused
    /\ \E t \in TaskIds :
        /\ task_records[t].is_initialized
        /\ ~task_records[t].is_claimed
        /\ task_records[t].reward_amount > 0

\* C12: pausing is reversible.  In every state with the reward pool
\* initialized, paused or not, a SetPaused(b) and an UpdatePlatformFee(p) with
\* p <= 100 signed by the stored authority succeed and store b and p; so
\* SetPaused(false) after SetPaused(true) leaves is_paused = false, and no
\* RecordTaskCompletion or WithdrawRewards is refused for the pause then.
C12_PauseIsReversible ==
    /\ [](reward_pool.is_initialized =>
            /\ \A b \in BOOLEAN :
                LET out == process_set_paused(PoolPda, reward_pool.platform_authority,
                                              TRUE, b)
                IN  /\ out.code = "Ok"
                    /\ out.pool = [reward_pool EXCEPT !.is_paused = b]
            /\ \A p \in {f \in universe.fees : f <= 100} :
                LET out == process_update_platform_fee(
                               PoolPda, reward_pool.platform_authority, TRUE, p)
                IN  /\ out.code = "Ok"
                    /\ out.pool = [reward_pool EXCEPT !.platform_fee_percentage = p])
    /\ [][/\ (/\ reward_pool.is_initialized
              /\ last'.op \in {"SetPaused", "UpdatePlatformFee"}
              /\ last'.caller = reward_pool.platform_authority
              /\ last'.at \notin {"fee", "pool_pda"})
             => last'.code = "Ok"
          /\ last'.code = "RewardPoolPaused" => reward_pool.is_paused]_vars

\* the authority changes the fee of a paused pool
C12_Witness ==
    /\ last.op = "UpdatePlatformFee"
    /\ last.code = "Ok"
    /\ reward_pool.is_paused
    /\ last.caller = reward_pool.platform_authority

\* C13: a SetPaused, UpdatePlatformFee or RecordTaskCompletion that is not
\* signed by the stored platform authority fails and leaves the reward pool,
\* every farmer account and every task record unchanged; it fails with
\* MissingRequiredSignature when nobody signed (unless the fee is refused
\* first), and with UnauthorizedPlatform when another key signed a call that
\* is not refused for its fee or its reward pool address.
C13_OnlyAuthorityAdministers ==
    [][(/\ reward_pool.is_initialized
        /\ last'.op \in {"SetPaused", "UpdatePlatformFee", "RecordTaskCompletion"}
        /\ last'.caller # reward_pool.platform_authority)
       => /\ last'.code # "Ok"
          /\ RecordsUnchanged
          /\ last'.caller = ""
                => last'.code \in {"MissingRequiredSignature", "InvalidFeePercentage"}
          /\ (last'.caller # "" /\ last'.at \notin {"fee", "pool_pda"})
                => last'.code = "UnauthorizedPlatform"]_vars

\* a RecordTaskCompletion signed by another key than the authority is refused
C13_Witness ==
    /\ last.op = "RecordTaskCompletion"
    /\ last.code = "UnauthorizedPlatform"
    /\ reward_pool.is_initialized
    /\ last.caller \notin {"", reward_pool.platform_authority}

\* C14: the reward pool is created once.  A successful InitializeRewardPool
\* finds no reward pool account and leaves one that is initialized, not
\* paused, with both totals zero and the signer as platform authority; an
\* InitializeRewardPool of an initialized pool fails, whoever signs it and
\* whatever the fee, and leaves the pool unchanged; an initialized pool stays
\* initialized, its authority never changes, and its totals change only in a
\* WithdrawRewards.
C14_InitializedOnce ==
    [][/\ (last'.op = "InitializeRewardPool" /\ last'.code = "Ok")
            => /\ ~reward_pool.allocated
               /\ last'.caller # ""
               /\ reward_pool' = RewardPool(TRUE, TRUE, last'.caller,
                                            reward_pool'.platform_fee_percentage,
                                            0, 0, FALSE)
       /\ (last'.op = "InitializeRewardPool" /\ reward_pool.is_initialized)
            => /\ last'.code # "Ok"
               /\ reward_pool' = reward_pool
       /\ reward_pool.is_initialized
            => /\ reward_pool'.is_initialized
               /\ reward_pool'.platform_authority = reward_pool.platform_authority
               /\ last'.op # "WithdrawRewards"
                    => /\ reward_pool'.total_rewards_distributed
                            = reward_pool.total_rewards_distributed
                       /\ reward_pool'.total_platform_fees_collected
                            = reward_pool.total_platform_fees_collected]_vars

\* after a withdrawal, another key's InitializeRewardPool is refused
C14_Witness ==
    /\ last.op = "InitializeRewardPool"
    /\ last.code = "AccountAlreadyInUse"
    /\ last.caller \notin {"", reward_pool.platform_authority}
    /\ reward_pool.total_rewards_distributed > 0
    /\ reward_pool.total_platform_fees_collected > 0

\* C15: a task is claimed and paid only in a WithdrawRewards signed by the
\* farmer its record names: the farmer_address of an initialized task record
\* never changes, a step that sets is_claimed or counts a task as paid is a
\* WithdrawRewards signed by that farmer, and the token amounts move only in
\* a WithdrawRewards.
C15_OnlyOwnTasksPaid ==
    [][/\ \A t \in TaskIds :
            /\ task_records[t].is_initialized
                => task_records'[t].farmer_address = task_records[t].farmer_address
            /\ (task_records'[t].is_claimed /\ ~task_records[t].is_claimed)
                => /\ last'.op = "WithdrawRewards"
                   /\ last'.caller = task_records[t].farmer_address
            /\ paid'[t] > paid[t]
                => /\ last'.code = "Ok"
                   /\ last'.caller = task_records[t].farmer_address
       /\ token_amounts' # token_amounts => last'.op = "WithdrawRewards"]_vars

\* a farmer with an account of their own is refused another farmer's task
C15_Witness ==
    /\ last.op = "WithdrawRewards"
    /\ last.code = "InvalidFarmerAddress"
    /\ last.at = "task_farmer"
    /\ last.caller \in Farmers
    /\ farmer_accounts[last.caller].is_initialized
    /\ \E t \in TaskIds :
        /\ task_records[t].is_initialized
        /\ task_records[t].farmer_address # last.caller
        /\ ~task_records[t].is_claimed

\* C16: the derived-address checks come before every write: an instruction
\* refused because an address it was handed (reward pool, farmer account, task
\* record, reward vault) is not the derived one has changed no reward pool,
\* farmer account or task record.
C16_AddressChecksBeforeWrites ==
    [][last'.code = "InvalidSeeds" => RecordsUnchanged]_vars

\* C17: a RecordTaskCompletion never touches a task record account that
\* exists, claimed or not; one that succeeds has created the record of a task
\* id that had none; one that finds the task record account in use fails with
\* AccountAlreadyInUse, and leaves every task record and every farmer's
\* total_rewards_earned unchanged, whichever farmer it names.
C17_DuplicateTaskRejected ==
    [][last'.op = "RecordTaskCompletion" =>
        /\ \A t \in TaskIds :
            task_records[t].allocated => task_records'[t] = task_records[t]
        /\ last'.code = "Ok" =>
            \E t \in TaskIds :
                /\ ~task_records[t].allocated
                /\ task_records'[t].is_initialized
                /\ \A u \in TaskIds \ {t} : task_records'[u] = task_records[u]
        /\ last'.at = "create_task" =>
            /\ last'.code = "AccountAlreadyInUse"
            /\ task_records' = task_records
            /\ \A f \in Farmers :
                farmer_accounts'[f].total_rewards_earned
                    = farmer_accounts[f].total_rewards_earned]_vars

\* the id of a claimed task is refused when recorded again for a farmer who
\* had no account
C17_Witness ==
    /\ last.op = "RecordTaskCompletion"
    /\ last.code = "AccountAlreadyInUse"
    /\ \E t \in TaskIds : task_records[t].allocated
    /\ \A t \in TaskIds : task_records[t].allocated => task_records[t].is_claimed
    /\ \E f \in Farmers :
        farmer_accounts[f].allocated /\ ~farmer_accounts[f].is_initialized

\* the checks of WithdrawRewards that precede the nonce test
SitesBeforeNonce == {"signer", "load_pool", "paused", "load_farmer"}
\* the derived-address checks between the nonce test and the task loop
SitesOfAccountKeys == {"pool_pda", "farmer_pda"}

\* C18 as claimed: a WithdrawRewards with no task id, signed by a farmer who
\* has an account, on a pool that is not paused and with the derived account
\* addresses, fails with InvalidArgument whether or not expected_nonce is the
\* stored nonce, and changes nothing.
C18_EmptyBatchInvalidArgument ==
    [][(last'.empty /\ last'.at \notin SitesBeforeNonce \cup SitesOfAccountKeys)
       => /\ last'.code = "InvalidArgument"
          /\ RecordsUnchanged
          /\ token_amounts' = token_amounts]_vars

\* C18 as amended: a WithdrawRewards with no task id always fails and changes
\* nothing; for a call as above the error is InvalidArgument when
\* expected_nonce is the stored nonce and InvalidNonce when it is not.
C18_EmptyBatchRejected ==
    [][last'.empty
       => /\ last'.code # "Ok"
          /\ RecordsUnchanged
          /\ token_amounts' = token_amounts
          /\ last'.at \notin SitesBeforeNonce \cup SitesOfAccountKeys
                => last'.code = IF last'.nonce_differs THEN "InvalidNonce"
                                ELSE "InvalidArgument"]_vars

\* after a withdrawal, the farmer's empty batch with the stored nonce 1 is
\* refused with InvalidArgument
C18_Witness ==
    /\ last.empty
    /\ last.code = "InvalidArgument"
    /\ ~last.nonce_differs
    /\ last.caller \in Farmers
    /\ Nonce(last.caller) = 1

\* C19: a WithdrawRewards refused because a task of the batch has another
\* token mint than the tasks before it returns an error of its own, not the
\* InvalidArgument of the empty batch and the zero total; and no
\* WithdrawRewards of tasks with two mints succeeds.
C19_InconsistentAssetCode ==
    [][(last'.op = "WithdrawRewards" /\ last'.at = "task_mint")
       => last'.code \notin {"Ok", "InvalidArgument"}]_vars

\* the state of Scenario A before its withdrawal: InitializeRewardPool(10),
\* then RecordTaskCompletion("t1", "p1", 1000) for farmer f1 in mint m1, from
\* the state after construction; "p1" is a pool id of 2 bytes
ScenarioA_Recorded ==
    /\ Idle
    /\ reward_pool = RewardPool(TRUE, TRUE, reward_pool.platform_authority,
                                10, 0, 0, FALSE)
    /\ task_records = [t \in TaskIds |->
            IF t = "t1"
            THEN TaskCompletionRecord(TRUE, TRUE, "t1", "f1", 2, 1000, "m1", FALSE,
                                      task_records["t1"].completion_slot)
            ELSE NoTaskRecord]
    /\ farmer_accounts["f1"].is_initialized
    /\ farmer_accounts["f2"] = NoFarmerAccount
    /\ token_amounts = [k \in TokenKeys |-> InitialAmount(k)]

\* WithdrawRewards(["t1"], 0) signed by f1, with the derived accounts, f1's
\* token account, the treasury's token account and a token program that
\* accepts both transfers
ScenarioA_Withdraw(overflow_checks) ==
    process_withdraw_rewards(
        PoolPda, find_program_address(get_farmer_account_seeds("f1")), VaultM1,
        <<"token", "f1_m1">>, <<"token", "tr_m1">>, "f1", TRUE, <<"t1">>, 0,
        TaskIds, TRUE, TRUE, overflow_checks)

\* C20: Scenario A.  After InitializeRewardPool(10) and
\* RecordTaskCompletion("t1", "p1", 1000) for f1, f1's total_rewards_earned is
\* 1000, and WithdrawRewards(["t1"], 0) by f1 succeeds: 900 go to the farmer's
\* token account and 100 to the treasury, withdrawal_nonce is 1,
\* total_rewards_withdrawn is 1000, t1 is claimed, total_rewards_distributed
\* is 900 and total_platform_fees_collected is 100.
C20_ScenarioA ==
    ScenarioA_Recorded =>
        /\ farmer_accounts["f1"] = FarmerAccount(TRUE, TRUE, "f1", 0, 1000, 0, 0)
        /\ \A overflow_checks \in universe.builds :
            LET out == ScenarioA_Withdraw(overflow_checks) IN
            /\ out.code = "Ok"
            /\ out.tokens[<<"token", "f1_m1">>]
                    = token_amounts[<<"token", "f1_m1">>] + 900
            /\ out.tokens[<<"token", "tr_m1">>]
                    = token_amounts[<<"token", "tr_m1">>] + 100
            /\ out.tokens[VaultM1] = token_amounts[VaultM1] - 1000
            /\ out.farmers["f1"].withdrawal_nonce = 1
            /\ out.farmers["f1"].total_rewards_withdrawn = 1000
            /\ out.tasks["t1"].is_claimed
            /\ out.pool.total_rewards_distributed = 900
            /\ out.pool.total_platform_fees_collected = 100

\* the sum of f[x] over the x in S
RECURSIVE SumOver(_, _)
SumOver(f, S) ==
    IF S = {} THEN 0
    ELSE LET x == CHOOSE y \in S : TRUE IN f[x] + SumOver(f, S \ {x})

\* the tasks this step marks as claimed, and the sum of their rewards
NewlyClaimed ==
    {t \in TaskIds : task_records'[t].is_claimed /\ ~task_records[t].is_claimed}
NewlyClaimedTotal ==
    SumOver([t \in TaskIds |-> task_records[t].reward_amount], NewlyClaimed)

\* C21: a successful WithdrawRewards of total T with fee f and farmer amount
\* a = T - f leaves every task of the batch claimed, adds T to the farmer's
\* total_rewards_withdrawn, sets last_withdrawal_slot to the slot of the
\* clock, adds a to total_rewards_distributed and f to
\* total_platform_fees_collected, and moves a from the reward vault of the
\* batch's mint to one token account and f to one token account (an amount
\* of zero moves nothing).
C21_WithdrawalCommit ==
    [][(last'.op = "WithdrawRewards" /\ last'.code = "Ok") =>
        LET F == last'.caller
            T == NewlyClaimedTotal
            f == last'.fee
            a == T - f
        IN
        /\ NewlyClaimed # {}
        /\ \A t \in TaskIds : paid'[t] > paid[t] <=> t \in NewlyClaimed
        /\ last'.total = T
        /\ a >= 0
        /\ farmer_accounts'[F].total_rewards_withdrawn
                = farmer_accounts[F].total_rewards_withdrawn + T
        /\ farmer_accounts'[F].last_withdrawal_slot = slot
        /\ reward_pool'.total_rewards_distributed
                = reward_pool.total_rewards_distributed + a
        /\ reward_pool'.total_platform_fees_collected
                = reward_pool.total_platform_fees_collected + f
        /\ \E t \in NewlyClaimed :
            LET vault == find_program_address(
                            get_reward_vault_seeds(task_records[t].token_mint))
            IN \E ft \in TokenKeys \ {vault}, tr \in TokenKeys \ {vault} :
                token_amounts' =
                    TransferApplied(TransferApplied(token_amounts, vault, ft, a),
                                    vault, tr, f)]_vars

\* a withdrawal of two tasks at a later slot than their completion, with a
\* fee, succeeded
C21_Witness ==
    /\ last.op = "WithdrawRewards"
    /\ last.code = "Ok"
    /\ last.total = 2000
    /\ last.fee = 200
    /\ slot > 0
    /\ last.caller \in Farmers
    /\ farmer_accounts[last.caller].last_withdrawal_slot = slot
    /\ reward_pool.total_rewards_distributed = 1800

\* C22: a WithdrawRewards whose tasks all pass the tests of the loop but
\* whose rewards add up to zero fails with InvalidArgument, and leaves every
\* task of the batch unclaimed and the farmer's withdrawal_nonce unchanged.
C22_ZeroTotalChangesNothing ==
    [][(last'.op = "WithdrawRewards" /\ last'.at = "total_zero")
       => /\ last'.code = "InvalidArgument"
          /\ \A t \in TaskIds :
                task_records'[t].is_claimed = task_records[t].is_claimed
          /\ \A f \in Farmers :
                farmer_accounts'[f].withdrawal_nonce = Nonce(f)]_vars

\* C23: a WithdrawRewards refused because the reward vault holds less than
\* the total, or because the vault, the farmer's token account or the
\* treasury is of another mint than the batch, has moved no token, has marked
\* no task as claimed and has changed no counter; no token amount is ever
\* negative.
C23_TokenChecksChangeNothing ==
    /\ [](\A k \in TokenKeys : token_amounts[k] >= 0)
    /\ [][(/\ last'.op = "WithdrawRewards"
           /\ last'.at \in {"vault_mint", "vault_amount", "farmer_token_mint",
                            "treasury_mint"})
          => /\ last'.code \in {"InsufficientTokenBalance", "InvalidTokenAccount"}
             /\ token_amounts' = token_amounts
             /\ RecordsUnchanged]_vars

\* the sum of reward_amount over the task records written for farmer f
RecordedFor(f) ==
    {t \in TaskIds : task_records[t].is_initialized
                     /\ task_records[t].farmer_address = f}
RecordedTotal(f) ==
    SumOver([t \in TaskIds |-> task_records[t].reward_amount], RecordedFor(f))

\* C24: the account of farmer f is created by the first successful
\* RecordTaskCompletion for f, and by no other step, with withdrawal_nonce,
\* total_rewards_withdrawn and last_withdrawal_slot zero; a farmer account
\* that exists names its farmer; and, unless the sum exceeds u64,
\* total_rewards_earned of f is the sum of reward_amount over the task
\* records of f.
C24_LedgerCreatedOnceAndSums ==
    /\ [](\A f \in Farmers :
            /\ farmer_accounts[f].allocated
                => /\ farmer_accounts[f].is_initialized
                   /\ farmer_accounts[f].farmer_address = f
            /\ RecordedTotal(f) <= U64_MAX
                => farmer_accounts[f].total_rewards_earned = RecordedTotal(f))
    /\ [][\A f \in Farmers :
            (farmer_accounts'[f].allocated /\ ~farmer_accounts[f].allocated)
                => /\ last'.op = "RecordTaskCompletion"
                   /\ last'.code = "Ok"
                   /\ farmer_accounts'[f] =
                        FarmerAccount(TRUE, TRUE, f, 0,
                                      farmer_accounts'[f].total_rewards_earned,
                                      0, 0)]_vars

\* a farmer account RecordTaskCompletion can use: none yet, or an initialized
\* one
FarmerAccountUsable(f) ==
    ~farmer_accounts[f].allocated \/ farmer_accounts[f].is_initialized

\* C25: a reward_amount of zero is legal.  On an initialized pool that is not
\* paused, a RecordTaskCompletion signed by the authority with reward_amount
\* 0, for a task id that has no record account, whose record fits the layout,
\* and a farmer whose account is absent or initialized, succeeds, writes an
\* unclaimed record with reward_amount 0 and leaves the farmer's
\* total_rewards_earned as it was; and a step that records a reward of zero
\* changes no total_rewards_earned.
C25_ZeroRewardIsLegal ==
    /\ []((Idle /\ reward_pool.is_initialized /\ ~reward_pool.is_paused) =>
            \A f \in Farmers, t \in TaskIds, mint \in universe.mints,
               len \in universe.pool_id_lens, overflow_checks \in universe.builds :
                LET record == TaskCompletionRecord(TRUE, TRUE, t, f, len, 0, mint,
                                                   FALSE, slot)
                    out == process_record_task_completion(
                               PoolPda,
                               find_program_address(get_farmer_account_seeds(f)),
                               find_program_address(get_task_record_seeds(t)),
                               f, mint, reward_pool.platform_authority, TRUE, t,
                               len, 0, overflow_checks)
                IN  (/\ ~task_records[t].allocated
                     /\ TaskIdLen(t) <= MAX_SEED_LEN
                     /\ TaskRecord_serialize_fits(record)
                     /\ FarmerAccountUsable(f))
                    => /\ out.code = "Ok"
                       /\ out.tasks = [task_records EXCEPT ![t] = record]
                       /\ out.farmers[f].is_initialized
                       /\ out.farmers[f].total_rewards_earned
                            = farmer_accounts[f].total_rewards_earned)
    /\ [][(/\ last'.op = "RecordTaskCompletion"
           /\ last'.code = "Ok"
           /\ \E t \in TaskIds : /\ ~task_records[t].allocated
                                 /\ task_records'[t].is_initialized
                                 /\ task_records'[t].reward_amount = 0)
          => \A f \in Farmers :
                farmer_accounts'[f].total_rewards_earned
                    = farmer_accounts[f].total_rewards_earned]_vars

\* a task with reward 0 was recorded for a farmer who had earned 1000
C25_Witness ==
    /\ last.op = "RecordTaskCompletion"
    /\ last.code = "Ok"
    /\ \E t \in TaskIds, u \in TaskIds :
        /\ task_records[t].is_initialized
        /\ task_records[t].reward_amount = 0
        /\ ~task_records[t].is_claimed
        /\ task_records[u].is_initialized
        /\ task_records[u].reward_amount = 1000
        /\ task_records[u].farmer_address = task_records[t].farmer_address
        /\ farmer_accounts[task_records[t].farmer_address].total_rewards_earned = 1000

\* C26: a RecordTaskCompletion refused because its task id or pool id is too
\* long (a task id longer than a seed, a record longer than the task record
\* layout) has created no task record and has changed no farmer account, no
\* total_rewards_earned and no other record.
C26_LongStringsChangeNothing ==
    [][(/\ last'.op = "RecordTaskCompletion"
        /\ \/ last'.at = "save_task"
           \/ last'.at = "task_pda" /\ last'.code = "Panic")
       => /\ last'.code # "Ok"
          /\ RecordsUnchanged]_vars

\* the records that exist: the names of the accounts that are allocated
Existing ==
    (IF reward_pool.allocated THEN {"reward_pool"} ELSE {})
        \cup {f \in Farmers : farmer_accounts[f].allocated}
        \cup {t \in TaskIds : task_records[t].allocated}
ExistingAfter ==
    (IF reward_pool'.allocated THEN {"reward_pool"} ELSE {})
        \cup {f \in Farmers : farmer_accounts'[f].allocated}
        \cup {t \in TaskIds : task_records'[t].allocated}

\* C27: frame conditions.  A successful RecordTaskCompletion creates one task
\* record, unclaimed, for a farmer f, and changes besides only f's account:
\* its total_rewards_earned, or the whole account when f had none; the reward
\* pool and every other account and record are unchanged.  A successful
\* WithdrawRewards changes only the signer's farmer account, and not its
\* total_rewards_earned, only the task records of its batch, and of these
\* only is_claimed, and not the pool's fee percentage, pause flag or
\* authority.  No step removes an account or un-initializes it.
C27_FrameConditions ==
    [][/\ (last'.op = "RecordTaskCompletion" /\ last'.code = "Ok") =>
            \E f \in Farmers, t \in TaskIds :
                /\ ~task_records[t].allocated
                /\ task_records'[t].is_initialized
                /\ task_records'[t].farmer_address = f
                /\ ~task_records'[t].is_claimed
                /\ task_records' = [task_records EXCEPT ![t] = task_records'[t]]
                /\ farmer_accounts' =
                        [farmer_accounts EXCEPT ![f] = farmer_accounts'[f]]
                /\ farmer_accounts'[f] =
                        IF farmer_accounts[f].allocated
                        THEN [farmer_accounts[f] EXCEPT !.total_rewards_earned =
                                    farmer_accounts'[f].total_rewards_earned]
                        ELSE FarmerAccount(TRUE, TRUE, f, 0,
                                    farmer_accounts'[f].total_rewards_earned, 0, 0)
                /\ reward_pool' = reward_pool
                /\ token_amounts' = token_amounts
       /\ (last'.op = "WithdrawRewards" /\ last'.code = "Ok") =>
            LET F == last'.caller IN
            /\ farmer_accounts' = [farmer_accounts EXCEPT ![F] = farmer_accounts'[F]]
            /\ farmer_accounts'[F].total_rewards_earned
                    = farmer_accounts[F].total_rewards_earned
            /\ farmer_accounts'[F].farmer_address = F
            /\ \A t \in TaskIds :
                IF paid'[t] > paid[t]
                THEN task_records'[t] = [task_records[t] EXCEPT !.is_claimed = TRUE]
                ELSE task_records'[t] = task_records[t]
            /\ reward_pool'.platform_fee_percentage
                    = reward_pool.platform_fee_percentage
            /\ reward_pool'.is_paused = reward_pool.is_paused
            /\ reward_pool'.platform_authority = reward_pool.platform_authority
       /\ Existing \subseteq ExistingAfter
       /\ reward_pool.is_initialized => reward_pool'.is_initialized
       /\ \A f \in Farmers :
            farmer_accounts[f].is_initialized => farmer_accounts'[f].is_initialized
       /\ \A t \in TaskIds :
            task_records[t].is_initialized => task_records'[t].is_initialized]_vars

\* a farmer withdrew their task while another farmer has an account and an
\* unclaimed task of their own
C27_Witness ==
    /\ last.op = "WithdrawRewards"
    /\ last.code = "Ok"
    /\ last.caller \in Farmers
    /\ \E t \in TaskIds :
        /\ task_records[t].farmer_address = last.caller
        /\ task_records[t].is_claimed
    /\ \E g \in Farmers \ {last.caller}, u \in TaskIds :
        /\ farmer_accounts[g].is_initialized
        /\ farmer_accounts[g].total_rewards_earned > 0
        /\ task_records[u].is_initialized
        /\ task_records[u].farmer_address = g
        /\ ~task_records[u].is_claimed

\* the sum of reward_amount over the claimed task records of farmer f
ClaimedTotal(f) ==
    SumOver([t \in TaskIds |-> task_records[t].reward_amount],
            {t \in RecordedFor(f) : task_records[t].is_claimed})

\* C28: for every farmer, total_rewards_withdrawn is the sum of reward_amount
\* over the farmer's task records that are claimed: a task is claimed exactly
\* when its reward was counted in a successful withdrawal.
C28_WithdrawnIsClaimedTotal ==
    \A f \in Farmers :
        farmer_accounts[f].total_rewards_withdrawn = ClaimedTotal(f)

\* C29: for every farmer, total_rewards_withdrawn is at most
\* total_rewards_earned.
C29_WithdrawnAtMostEarned ==
    \A f \in Farmers :
        farmer_accounts[f].total_rewards_withdrawn
            <= farmer_accounts[f].total_rewards_earned

\* the reward vaults, and the amount that has left them
VaultKeys == {find_program_address(get_reward_vault_seeds(m)) : m \in {"m1", "m2"}}
TransferredOut ==
    SumOver([k \in VaultKeys |-> InitialAmount(k) - token_amounts[k]], VaultKeys)

\* C30: total_rewards_distributed + total_platform_fees_collected is the sum
\* of total_rewards_withdrawn over the farmer accounts, and is the amount
\* that has left the reward vaults.
C30_CountersMatchAssets ==
    LET counted == reward_pool.total_rewards_distributed
                       + reward_pool.total_platform_fees_collected
    IN  /\ counted = SumOver([f \in Farmers |->
                                farmer_accounts[f].total_rewards_withdrawn], Farmers)
        /\ counted = TransferredOut

\* C31: a WithdrawRewards whose task_ids list a task id more than once fails,
\* having moved no tokens, or its total counts each task of the batch once;
\* and no successful WithdrawRewards has a total other than the sum of the
\* rewards of the tasks it claims, each once, nor pays a task that a
\* successful withdrawal has paid.
C31_RepeatedTaskCountedOnce ==
    [][last'.op = "WithdrawRewards" =>
        /\ last'.repeats =>
            \/ /\ last'.code # "Ok"
               /\ token_amounts' = token_amounts
               /\ paid' = paid
            \/ last'.total = NewlyClaimedTotal
        /\ last'.code = "Ok" =>
            /\ last'.total = NewlyClaimedTotal
            /\ \A t \in TaskIds : paid'[t] <= 1]_vars

\* a batch that lists one unclaimed task of the caller twice was refused at
\* the second occurrence
C31_Witness ==
    /\ last.op = "WithdrawRewards"
    /\ last.repeats
    /\ last.code = "TaskAlreadyClaimed"
    /\ last.caller \in Farmers
    /\ \E t \in RecordedFor(last.caller) :
        /\ task_records[t].is_claimed
        /\ task_records[t].reward_amount > 0
        /\ paid[t] = 0
    /\ token_amounts = [k \in TokenKeys |-> InitialAmount(k)]

\* WithdrawRewards(task_ids, the stored nonce) signed by farmer with the
\* derived pool and farmer accounts, every task record account listed, a
\* token program that accepts both transfers, and the three token accounts
\* the caller chooses
WithdrawWith(farmer, task_ids, vault_key, farmer_token_key, treasury_key, overflow_checks) ==
    process_withdraw_rewards(
        PoolPda, find_program_address(get_farmer_account_seeds(farmer)),
        vault_key, farmer_token_key, treasury_key, farmer, TRUE, task_ids,
        farmer_accounts[farmer].withdrawal_nonce, TaskIds, TRUE, TRUE,
        overflow_checks)

\* C32: the fee of a successful WithdrawRewards goes to an account the caller
\* does not choose.  For every state, farmer and batch there is one token
\* account, not a reward vault, that every successful withdrawal with a fee
\* credits with the fee, whatever reward vault, farmer token account and
\* treasury account the caller passes, and it is not the account the
\* farmer's amount is paid to.
C32_FeeAccountNotChosen ==
    Idle =>
        \A farmer \in Farmers, task_ids \in Batches,
           overflow_checks \in universe.builds :
            \E treasury \in TokenKeys \ VaultKeys :
                \A vault_key \in VaultChoices,
                   farmer_token_key \in FarmerTokenChoices,
                   treasury_key \in TreasuryChoices :
                    LET out == WithdrawWith(farmer, task_ids, vault_key,
                                            farmer_token_key, treasury_key,
                                            overflow_checks)
                    IN  (out.code = "Ok" /\ out.fee > 0) =>
                            /\ treasury # farmer_token_key
                            /\ out.tokens[treasury]
                                    = token_amounts[treasury] + out.fee

====
